---------------------------- MODULE Spec2Model ----------------------------
(***************************************************************************)
(* Model of src/mkimg/src/build.rs: the build context of a component       *)
(* system (ComponentContext, BuildContext), the two resolution passes of   *)
(* BuildContext::new, dependency validation, the sequential component      *)
(* builds of build_components and the packaging steps of gen_booter.       *)
(*                                                                         *)
(* Rust Strings are TLA+ strings: format! is \o, split('.') is Split, and  *)
(* String's Ord (byte-wise lexicographic, the order of the BTreeMap keys)  *)
(* is StrLess.  Option<T> is a sequence of length 0 (None) or 1 (Some).    *)
(* env!("PWD") is expanded when the tool is compiled: Pwd is a constant of *)
(* the binary, while cwd is the directory a run starts in, the one the     *)
(* relative "make -C ../" of the command line is resolved against.         *)
(* The fields base_addr, initfs, library_deps and the contents of params   *)
(* take part in no path, list or ordering below and are left out; params   *)
(* is always Some after ComponentContext::new (line 145).                  *)
(***************************************************************************)
EXTENDS Naturals, Sequences, FiniteSets, TLC

VARIABLES
    comps,      \* the Vec<Component> given to BuildContext::new
    booter,     \* the booter's variable name given to BuildContext::new
    cwd,        \* the working directory the tool runs in
    pc,         \* position of the run
    ctxt,       \* BuildContext.comps: variable name -> ComponentContext
    builddir,   \* BuildContext.builddir
    verdict,    \* Result<(), String> of BuildContext::validate_deps
    resets,     \* the results of the reset_dir calls so far (TRUE: Ok)
    idx,        \* position of the build_components loop in the key order
    execs,      \* the exec_pipeline calls so far, oldest first
    writes,     \* the files created so far, oldest first
    ar          \* entries of the tar archive, in insertion order

vars == <<comps, booter, cwd, pc, ctxt, builddir, verdict, resets, idx, execs, writes, ar>>

-----------------------------------------------------------------------------
(* Bounds of the inputs *)

MaxExports == 2      \* declared exports of one component
MaxDeps == 2         \* declared dependencies of one component
MaxDecls == 3        \* declarations of a whole system, resolution inputs
MaxBuildDecls == 1   \* declarations of a whole system, build inputs

None == <<>>
Some(v) == <<v>>

-----------------------------------------------------------------------------
(* Strings *)

Char(s, i) == SubSeq(s, i, i)

\* The characters used, in ascending byte order.
AsciiOrder == "./0123456789_abcdefghijklmnopqrstuvwxyz"

CharRank(c) == CHOOSE i \in 1..Len(AsciiOrder) : Char(AsciiOrder, i) = c

RECURSIVE StrLessFrom(_, _, _)
StrLessFrom(a, b, i) ==
    IF i > Len(b) THEN FALSE
    ELSE IF i > Len(a) THEN TRUE
    ELSE IF Char(a, i) = Char(b, i) THEN StrLessFrom(a, b, i + 1)
    ELSE CharRank(Char(a, i)) < CharRank(Char(b, i))

\* String's Ord: byte-wise lexicographic, a proper prefix first.
StrLess(a, b) == StrLessFrom(a, b, 1)

RECURSIVE SplitFrom(_, _, _, _)
SplitFrom(s, sep, i, cur) ==
    IF i > Len(s) THEN <<cur>>
    ELSE IF Char(s, i) = sep THEN <<cur>> \o SplitFrom(s, sep, i + 1, "")
    ELSE SplitFrom(s, sep, i + 1, cur \o Char(s, i))

\* str::split(sep).collect()
Split(s, sep) == SplitFrom(s, sep, 1, "")

RECURSIVE Concat(_)
Concat(ss) == IF ss = <<>> THEN "" ELSE Head(ss) \o Concat(Tail(ss))

\* The keys of a BTreeMap<String, _> in iteration order.
RECURSIVE SortedKeys(_)
SortedKeys(S) ==
    IF S = {} THEN <<>>
    ELSE LET m == CHOOSE x \in S : \A y \in S \ {x} : StrLess(x, y)
         IN  <<m>> \o SortedKeys(S \ {m})

\* The sequences over S of length n at most.
SeqUpTo(S, n) == UNION {[1..k -> S] : k \in 0..n}

-----------------------------------------------------------------------------
(* ComponentContext *)

DefaultVariant == "stubs"

comp_interface_name(img) ==
    LET if_name == Split(img, ".")
    IN  <<if_name[1], if_name[2]>>

\* The assertion of comp_interface_name.
ImgOk(img) == Len(Split(img, ".")) = 2

VariantOr(v) == IF v = None THEN DefaultVariant ELSE v[1]

\* The export loop of ComponentContext::new and the default export.
DeclaredExports(comp) ==
    [k \in 1..Len(comp.interfaces) |->
        <<comp.interfaces[k].interface, VariantOr(comp.interfaces[k].variant)>>]

FoundIf(comp) ==
    \E k \in 1..Len(comp.interfaces) :
        comp.interfaces[k].interface = comp_interface_name(comp.img)[1]

\* Mutant: the reserved interfaces are not exempted.
InterfaceExports_NoSentinel(comp) ==
    LET interface == comp_interface_name(comp.img)[1]
    IN  IF ~FoundIf(comp)
        THEN Append(DeclaredExports(comp), <<interface, DefaultVariant>>)
        ELSE DeclaredExports(comp)

InterfaceExports(comp) ==
    LET interface == comp_interface_name(comp.img)[1]
    IN  IF ~FoundIf(comp) /\ interface # "tests" /\ interface # "no_interface"
        THEN Append(DeclaredExports(comp), <<interface, DefaultVariant>>)
        ELSE DeclaredExports(comp)

InterfaceServers(comp) ==
    [k \in 1..Len(comp.deps) |-> <<comp.deps[k].interface, comp.deps[k].srv>>]

ComponentContextNew(comp) ==
    [comp_name         |-> comp_interface_name(comp.img)[2],
     comp_if           |-> comp_interface_name(comp.img)[1],
     var_name          |-> comp.name,
     interface_exports |-> InterfaceExports(comp),
     interface_deps    |-> <<>>,
     interface_servers |-> InterfaceServers(comp)]

-----------------------------------------------------------------------------
(* BuildContext::new, pass two *)

Min(S) == CHOOSE x \in S : \A y \in S : x <= y

\* Mutant: the scan does not stop at the first match, the last one wins.
MatchingExport_Last(srv, dep) ==
    LET m == {j \in 1..Len(srv.interfaces) : srv.interfaces[j].interface = dep.interface}
    IN  IF m = {} THEN 0 ELSE CHOOSE x \in m : \A y \in m : y <= x

\* The index of the export the scan of srv.interfaces() stops at, or 0.
MatchingExport(srv, dep) ==
    LET m == {j \in 1..Len(srv.interfaces) : srv.interfaces[j].interface = dep.interface}
    IN  IF m = {} THEN 0 ELSE Min(m)

\* Mutant: the implementation name is compared instead of the interface.
ImplicitExport_ByName(srv, dep) ==
    LET name == comp_interface_name(srv.img)[2]
    IN  IF name = dep.interface
        THEN << <<name, dep.srv, DefaultVariant>> >>
        ELSE <<>>

\* The `if !found` branch: the server's own interface stands in.
ImplicitExport(srv, dep) ==
    LET interface == comp_interface_name(srv.img)[1]
    IN  IF interface = dep.interface
        THEN << <<interface, dep.srv, DefaultVariant>> >>
        ELSE <<>>

\* The triples one dependency record adds to interface_deps.
ResolveDep(dep, cs) ==
    LET hits == {k \in 1..Len(cs) : cs[k].name = dep.srv}
    IN  IF hits = {} THEN <<>>
        ELSE LET srv == cs[Min(hits)]
                 j   == MatchingExport(srv, dep)
             IN  IF j # 0
                 THEN << <<srv.interfaces[j].interface, dep.srv,
                           VariantOr(srv.interfaces[j].variant)>> >>
                 ELSE ImplicitExport(srv, dep)

RECURSIVE ResolveDeps(_, _)
ResolveDeps(deps, cs) ==
    IF deps = <<>> THEN <<>>
    ELSE ResolveDep(Head(deps), cs) \o ResolveDeps(Tail(deps), cs)

\* The context inserted for component c.
ResolvedContext(c, cs) ==
    [ComponentContextNew(c) EXCEPT !.interface_deps = ResolveDeps(c.deps, cs)]

\* ctxt after the loop: a later insert of the same key replaces the earlier.
BuildContextComps(cs) ==
    [n \in {cs[k].name : k \in 1..Len(cs)} |->
        LET last == CHOOSE k \in 1..Len(cs) :
                        /\ cs[k].name = n
                        /\ \A k2 \in 1..Len(cs) : cs[k2].name = n => k2 <= k
        IN  ResolvedContext(cs[last], cs)]

\* env!("PWD"), the value PWD had when the tool was compiled, and
\* process::id() of the run.
Pwd == "/w"
ProcessId == "7"

\* The directories a run of the tool may start in.
WorkDirs == {Pwd, "/r"}

ScratchDir == Pwd \o "/cos_build_" \o ProcessId \o "/"
FallbackDir == Pwd \o "/"

-----------------------------------------------------------------------------
(* Object names and paths *)

comp_obj_name(interface, comp_impl, varname) ==
    interface \o "." \o comp_impl \o "." \o varname

comp_build_obj_path(dir, interface, comp_impl, varname) ==
    dir \o comp_obj_name(interface, comp_impl, varname)

\* BuildContext::comp_obj_path
comp_obj_path(varname) ==
    IF varname \in DOMAIN ctxt
    THEN [ok |-> TRUE,
          val |-> comp_build_obj_path(builddir, ctxt[varname].comp_if,
                                      ctxt[varname].comp_name, ctxt[varname].var_name)]
    ELSE [ok |-> FALSE, val |-> "Error: Could not find component " \o varname \o ".\n"]

InitargsPath(comp_path) == comp_path \o "_initargs.c"
TarPath(comp_path) == comp_path \o "_initfs.tar"

-----------------------------------------------------------------------------
(* Validation *)

DebugStr(s) == "\"" \o s \o "\""

RECURSIVE DebugTuple(_)
DebugTuple(t) ==
    IF Len(t) = 1 THEN DebugStr(t[1])
    ELSE DebugStr(Head(t)) \o ", " \o DebugTuple(Tail(t))

RECURSIVE DebugItems(_)
DebugItems(v) ==
    IF Len(v) = 1 THEN "(" \o DebugTuple(v[1]) \o ")"
    ELSE "(" \o DebugTuple(Head(v)) \o "), " \o DebugItems(Tail(v))

\* {:?} of a Vec of tuples of Strings
DebugVec(v) == IF v = <<>> THEN "[]" ELSE "[" \o DebugItems(v) \o "]"

DepsMessage(c) ==
    "Component " \o c.var_name \o " (implementation: " \o c.comp_name
    \o ") has dependencies that are not satisfied by stated dependencies:\n\tDependencies "
    \o DebugVec(c.interface_servers) \o "\n\tProvided " \o DebugVec(c.interface_deps)

\* Mutant: the counts are not compared.
ComponentValidateDeps_AlwaysOk(c) == [ok |-> TRUE, err |-> ""]

\* ComponentContext::validate_deps
ComponentValidateDeps(c) ==
    IF Len(c.interface_deps) # Len(c.interface_servers)
    THEN [ok |-> FALSE, err |-> DepsMessage(c)]
    ELSE [ok |-> TRUE, err |-> ""]

\* Mutant: only the first failing component is reported.
ValidateDeps_FirstOnly(cx) ==
    LET keys == SortedKeys(DOMAIN cx)
        errs == SelectSeq([k \in 1..Len(keys) |-> ComponentValidateDeps(cx[keys[k]])],
                          LAMBDA r : ~r.ok)
    IN  IF Len(errs) = 0
        THEN [ok |-> TRUE, err |-> ""]
        ELSE [ok |-> FALSE, err |-> errs[1].err]

\* BuildContext::validate_deps
ValidateDeps(cx) ==
    LET keys == SortedKeys(DOMAIN cx)
        errs == SelectSeq([k \in 1..Len(keys) |-> ComponentValidateDeps(cx[keys[k]])],
                          LAMBDA r : ~r.ok)
    IN  IF Len(errs) = 0
        THEN [ok |-> TRUE, err |-> ""]
        ELSE [ok |-> FALSE, err |-> Concat([k \in 1..Len(errs) |-> errs[k].err])]

-----------------------------------------------------------------------------
(* Command synthesis *)

RECURSIVE JoinPlus(_)
JoinPlus(items) ==
    IF items = <<>> THEN ""
    ELSE IF Len(items) = 1 THEN Head(items)
    ELSE Head(items) \o "+" \o JoinPlus(Tail(items))

\* BuildContext::comp_gen_make_cmd: the make variables of the command line.
comp_gen_make_cmd(c, dir, initargsfile, tarfile) ==
    [COMP_INTERFACES    |-> JoinPlus([k \in 1..Len(c.interface_exports) |->
                                c.interface_exports[k][1] \o "/" \o c.interface_exports[k][2]]),
     COMP_IFDEPS        |-> JoinPlus([k \in 1..Len(c.interface_deps) |->
                                c.interface_deps[k][1] \o "/" \o c.interface_deps[k][3]]),
     COMP_INTERFACE     |-> c.comp_if,
     COMP_NAME          |-> c.comp_name,
     COMP_VARNAME       |-> c.var_name,
     COMP_OUTPUT        |-> comp_build_obj_path(dir, c.comp_if, c.comp_name, c.var_name),
     COMP_INITARGS_FILE |-> initargsfile,
     COMP_TAR_FILE      |-> tarfile]

-----------------------------------------------------------------------------
(* Inputs *)

\* The components named n over a domain of inputs, with e exports and d
\* dependencies declared.
CompsShaped(n, dom, e, d) ==
    [name : {n}, img : dom.imgs,
     interfaces : [1..e -> dom.ifdecls],
     deps : [1..d -> dom.depdecls]]

RECURSIVE Product(_)
Product(sets) ==
    IF sets = <<>> THEN {<<>>}
    ELSE {<<c>> \o rest : c \in Head(sets), rest \in Product(Tail(sets))}

RECURSIVE Declared(_)
Declared(sh) == IF sh = <<>> THEN 0 ELSE Head(sh)[1] + Head(sh)[2] + Declared(Tail(sh))

\* The numbers of exports and dependencies of n components that declare at
\* most b of them together.
Shapes(n, b) ==
    {sh \in [1..n -> (0..MaxExports) \X (0..MaxDeps)] : Declared(sh) <= b}

\* Non-empty lists of distinct names (the specification keys are unique).
NameSeqs(pool) ==
    {ns \in SeqUpTo(pool, Cardinality(pool)) :
        /\ Len(ns) >= 1
        /\ \A i, j \in 1..Len(ns) : i # j => ns[i] # ns[j]}

\* cs is a component list over the domain with at most b declarations.
InputSystem(cs, dom, b) ==
    \E ns \in NameSeqs(dom.names) : \E sh \in Shapes(Len(ns), b) :
        cs \in Product([k \in 1..Len(ns) |->
                            CompsShaped(ns[k], dom, sh[k][1], sh[k][2])])

\* Build inputs: names that sort differently from the list order and that
\* extend one another, components sharing an image, a missing server.
BuildDomain ==
    [names    |-> {"a", "a_initargs.c", "b"},
     imgs     |-> {"p.x", "q.x"},
     ifdecls  |-> {[interface |-> "p", variant |-> Some("log")]},
     depdecls |-> {[interface |-> "p", srv |-> "a"], [interface |-> "p", srv |-> "g"]}]

\* Resolution inputs: explicit and omitted variants, a repeated interface,
\* the reserved interfaces, servers that exist and one ("g") that does not.
ResolveDomain ==
    [names    |-> {"a", "b"},
     imgs     |-> {"p.x", "tests.x", "no_interface.x"},
     ifdecls  |-> {[interface |-> "p", variant |-> None],
                   [interface |-> "p", variant |-> Some("log")],
                   [interface |-> "q", variant |-> None]},
     depdecls |-> [interface : {"p", "q", "tests"}, srv : {"a", "g"}]]

Names(cs) == {cs[k].name : k \in 1..Len(cs)}

InitRun ==
    /\ pc = "new"
    /\ ctxt = <<>>
    /\ builddir = ""
    /\ verdict = None
    /\ resets = <<>>
    /\ idx = 0
    /\ execs = <<>>
    /\ writes = <<>>
    /\ ar = <<>>

Init ==
    /\ InputSystem(comps, BuildDomain, MaxBuildDecls)
    /\ \A k \in 1..Len(comps) : ImgOk(comps[k].img)
    /\ booter \in Names(comps)
    /\ cwd \in WorkDirs
    /\ InitRun

\* The booter plays no part in resolution or validation.
InitResolve ==
    /\ InputSystem(comps, ResolveDomain, MaxDecls)
    /\ \A k \in 1..Len(comps) : ImgOk(comps[k].img)
    /\ booter = comps[1].name
    /\ cwd = Pwd
    /\ InitRun

-----------------------------------------------------------------------------
(* The run *)

\* BuildContext::new
BuildContextNew ==
    /\ pc = "new"
    /\ ctxt' = BuildContextComps(comps)
    /\ builddir' = ScratchDir
    /\ pc' = "validate"
    /\ UNCHANGED <<comps, booter, cwd, verdict, resets, idx, execs, writes, ar>>

\* The caller checks validate_deps and gives up on an error.
Validate ==
    /\ pc = "validate"
    /\ verdict' = Some(ValidateDeps(ctxt))
    /\ pc' = IF ValidateDeps(ctxt).ok THEN "build" ELSE "failed"
    /\ UNCHANGED <<comps, booter, cwd, ctxt, builddir, resets, idx, execs, writes, ar>>

\* BuildContext::refresh_build_dir, at the head of build_components;
\* ok is the result of reset_dir.
RefreshBuildDir ==
    /\ pc = "build"
    /\ \E ok \in BOOLEAN :
        /\ builddir' = IF ok THEN builddir ELSE FallbackDir
        /\ resets' = Append(resets, ok)
    /\ idx' = 1
    /\ pc' = "loop"
    /\ UNCHANGED <<comps, booter, cwd, ctxt, verdict, execs, writes, ar>>

Keys == SortedKeys(DOMAIN ctxt)

\* One iteration of build_components up to the call of exec_pipeline; the
\* command runs in the working directory of the tool.
BuildLaunch ==
    /\ pc = "loop"
    /\ idx <= Len(Keys)
    /\ LET n         == Keys[idx]
           c         == ctxt[n]
           comp_path == comp_build_obj_path(builddir, c.comp_if, c.comp_name, c.var_name)
           path      == InitargsPath(comp_path)
           cmd       == comp_gen_make_cmd(c, builddir, Some(path), None)
       IN  /\ writes' = Append(writes, [path |-> path, owner |-> n, kind |-> "initargs"])
           /\ execs' = Append(execs, [n |-> n, by |-> "build_components", dir |-> cwd,
                                      cmd |-> cmd, state |-> "running"])
    /\ pc' = "exec"
    /\ UNCHANGED <<comps, booter, cwd, ctxt, builddir, verdict, resets, idx, ar>>

\* exec_pipeline returns (out, err); a successful make leaves COMP_OUTPUT.
ExecReturn(ok) ==
    LET e == execs[Len(execs)]
    IN  /\ execs' = [execs EXCEPT ![Len(execs)].state = IF ok THEN "ok" ELSE "err"]
        /\ writes' = IF ok
                     THEN Append(writes, [path |-> e.cmd.COMP_OUTPUT, owner |-> e.n,
                                          kind |-> "output"])
                     ELSE writes

\* Mutant: a failing invocation ends the loop.
BuildExit_HaltOnError ==
    /\ pc = "exec"
    /\ \E ok \in BOOLEAN :
        /\ ExecReturn(ok)
        /\ idx' = IF ok THEN idx + 1 ELSE Len(Keys) + 1
    /\ pc' = "loop"
    /\ UNCHANGED <<comps, booter, cwd, ctxt, builddir, verdict, resets, ar>>

\* The rest of the iteration: the output is printed and the loop goes on.
BuildExit ==
    /\ pc = "exec"
    /\ \E ok \in BOOLEAN : ExecReturn(ok)
    /\ idx' = idx + 1
    /\ pc' = "loop"
    /\ UNCHANGED <<comps, booter, cwd, ctxt, builddir, verdict, resets, ar>>

\* build_components returns and the caller goes on to gen_booter.
BuildReturn ==
    /\ pc = "loop"
    /\ idx > Len(Keys)
    /\ pc' = "gen_booter"
    /\ UNCHANGED <<comps, booter, cwd, ctxt, builddir, verdict, resets, idx, execs, writes, ar>>

-----------------------------------------------------------------------------
(* gen_booter *)

\* compose.booter(): the composition is made from the same system.
ComposeBooter == booter

\* booter_tar_dirkey()
TarballKey == "binaries"

Exists(ws, path) == \E k \in 1..Len(ws) : ws[k].path = path

\* Mutant: the booter is bundled with the others.
TarFiles_All(b) ==
    [k \in 1..Len(Keys) |->
        [path |-> comp_build_obj_path(builddir, ctxt[Keys[k]].comp_if,
                                      ctxt[Keys[k]].comp_name, ctxt[Keys[k]].var_name),
         name |-> comp_obj_name(ctxt[Keys[k]].comp_if, ctxt[Keys[k]].comp_name,
                                ctxt[Keys[k]].var_name)]]

\* The (path, name) pairs of every component but the booter, in key order.
TarFiles(b) ==
    LET others == SelectSeq(Keys, LAMBDA n : n # b)
    IN  [k \in 1..Len(others) |->
            [path |-> comp_build_obj_path(builddir, ctxt[others[k]].comp_if,
                                          ctxt[others[k]].comp_name, ctxt[others[k]].var_name),
             name |-> comp_obj_name(ctxt[others[k]].comp_if, ctxt[others[k]].comp_name,
                                    ctxt[others[k]].var_name)]]

\* The number of leading entries of contents whose file can be opened.
RECURSIVE Opened(_, _)
Opened(contents, ws) ==
    IF contents = <<>> \/ ~Exists(ws, Head(contents).path) THEN 0
    ELSE 1 + Opened(Tail(contents), ws)

\* BuildContext::tarball_create: the entries appended before it returns or
\* panics on a file that cannot be opened.
tarball_create(tarball_key, contents, ws) ==
    <<[kind |-> "dir", name |-> tarball_key \o "/", src |-> tarball_key \o "/"]>>
    \o [k \in 1..Opened(contents, ws) |->
            [kind |-> "file", name |-> tarball_key \o "/" \o contents[k].name,
             src |-> contents[k].path]]

BooterCompPath ==
    comp_build_obj_path(builddir, ctxt[ComposeBooter].comp_if,
                        ctxt[ComposeBooter].comp_name, ctxt[ComposeBooter].var_name)

\* gen_booter up to and including tarball_create(...).unwrap()
GenBooterBundle ==
    /\ pc = "gen_booter"
    /\ LET tar_path  == TarPath(BooterCompPath)
           tar_files == TarFiles(ComposeBooter)
           created   == Append(writes, [path |-> tar_path, owner |-> ComposeBooter,
                                        kind |-> "initfs"])
       IN  /\ writes' = created
           /\ ar' = tarball_create(TarballKey, tar_files, created)
           /\ pc' = IF Opened(tar_files, created) = Len(tar_files)
                    THEN "describe" ELSE "panicked"
    /\ UNCHANGED <<comps, booter, cwd, ctxt, builddir, verdict, resets, idx, execs>>

\* initargs_create(&initargs_path, booter_serialize_args(&compose))
GenBooterDescribe ==
    /\ pc = "describe"
    /\ writes' = Append(writes, [path |-> InitargsPath(BooterCompPath),
                                 owner |-> ComposeBooter, kind |-> "booter_args"])
    /\ pc' = "seal"
    /\ UNCHANGED <<comps, booter, cwd, ctxt, builddir, verdict, resets, idx, execs, ar>>

\* Mutant: the booter is built before its arguments file is written.
GenBooterLaunch_BeforeDescribe ==
    /\ pc = "describe"
    /\ LET cmd == comp_gen_make_cmd(ctxt[booter], builddir,
                                    Some(InitargsPath(BooterCompPath)),
                                    Some(TarPath(BooterCompPath)))
       IN  execs' = Append(execs, [n |-> booter, by |-> "gen_booter", dir |-> cwd,
                                   cmd |-> cmd, state |-> "running"])
    /\ pc' = "sealing"
    /\ UNCHANGED <<comps, booter, cwd, ctxt, builddir, verdict, resets, idx, writes, ar>>

\* The booter's own command and the call of exec_pipeline.
GenBooterLaunch ==
    /\ pc = "seal"
    /\ LET cmd == comp_gen_make_cmd(ctxt[booter], builddir,
                                    Some(InitargsPath(BooterCompPath)),
                                    Some(TarPath(BooterCompPath)))
       IN  execs' = Append(execs, [n |-> booter, by |-> "gen_booter", dir |-> cwd,
                                   cmd |-> cmd, state |-> "running"])
    /\ pc' = "sealing"
    /\ UNCHANGED <<comps, booter, cwd, ctxt, builddir, verdict, resets, idx, writes, ar>>

GenBooterExit ==
    /\ pc = "sealing"
    /\ \E ok \in BOOLEAN : ExecReturn(ok)
    /\ pc' = "done"
    /\ UNCHANGED <<comps, booter, cwd, ctxt, builddir, verdict, resets, idx, ar>>

-----------------------------------------------------------------------------

Next ==
    \/ BuildContextNew
    \/ Validate
    \/ RefreshBuildDir
    \/ BuildLaunch
    \/ BuildExit
    \/ BuildReturn
    \/ GenBooterBundle
    \/ GenBooterDescribe
    \/ GenBooterLaunch
    \/ GenBooterExit

Spec == Init /\ [][Next]_vars

NextResolve ==
    \/ BuildContextNew
    \/ Validate

SpecResolve == InitResolve /\ [][NextResolve]_vars

-----------------------------------------------------------------------------
(* Vocabulary of the properties, stated on the inputs *)

Resolved == pc # "new"

Count(seq, x) == Cardinality({i \in 1..Len(seq) : seq[i] = x})

\* The interface part of an image "<interface>.<implementation>".
PrimaryOf(img) == SubSeq(img, 1, (CHOOSE i \in 1..Len(img) : Char(img, i) = ".") - 1)

Sentinel(interface) == interface \in {"tests", "no_interface"}

\* The component of the list that is named n.
Named(n) == comps[CHOOSE k \in 1..Len(comps) : comps[k].name = n]

Exports(S, I) == \E j \in 1..Len(S.interfaces) : S.interfaces[j].interface = I

\* The variant of the first export of S whose interface is I.
FirstVariant(S, I) ==
    LET j == CHOOSE j \in 1..Len(S.interfaces) :
                /\ S.interfaces[j].interface = I
                /\ \A j2 \in 1..(j - 1) : S.interfaces[j2].interface # I
    IN  IF Len(S.interfaces[j].variant) = 0 THEN "stubs" ELSE S.interfaces[j].variant[1]

\* The triples of component C for interface I and server S.
TriplesFor(C, I, S) ==
    {i \in 1..Len(ctxt[C.name].interface_deps) :
        /\ ctxt[C.name].interface_deps[i][1] = I
        /\ ctxt[C.name].interface_deps[i][2] = S}

\* A declared dependency record that some server of the list satisfies.
Satisfied(dep) ==
    /\ dep.srv \in Names(comps)
    /\ \/ Exports(Named(dep.srv), dep.interface)
       \/ PrimaryOf(Named(dep.srv).img) = dep.interface

AllSatisfied(C) == \A d \in 1..Len(C.deps) : Satisfied(C.deps[d])

-----------------------------------------------------------------------------
\* C1: a dependency record {I, S} whose server S exists and declares an export
\* of I resolves to one triple per record, (I, S, V), V the variant of the
\* FIRST export of S for I ("stubs" when it states none), and to no triple
\* for I and S with another variant.
C1_ExplicitExportResolved ==
    Resolved =>
        \A k \in 1..Len(comps) : \A d \in 1..Len(comps[k].deps) :
            LET C   == comps[k]
                dep == C.deps[d]
            IN  (dep.srv \in Names(comps) /\ Exports(Named(dep.srv), dep.interface)) =>
                    LET V == FirstVariant(Named(dep.srv), dep.interface)
                    IN  /\ Count(ctxt[C.name].interface_deps, <<dep.interface, dep.srv, V>>)
                            = Count(C.deps, dep)
                        /\ \A i \in TriplesFor(C, dep.interface, dep.srv) :
                                ctxt[C.name].interface_deps[i][3] = V

\* A server declares the interface twice with different variants and a
\* dependent resolved to the first of them.
C1_Witness ==
    /\ Resolved
    /\ \E k \in 1..Len(comps) : \E d \in 1..Len(comps[k].deps) :
        LET dep == comps[k].deps[d]
        IN  /\ dep.srv \in Names(comps)
            /\ Len(Named(dep.srv).interfaces) = 2
            /\ Named(dep.srv).interfaces[1].interface = dep.interface
            /\ Named(dep.srv).interfaces[2].interface = dep.interface
            /\ Named(dep.srv).interfaces[1].variant # Named(dep.srv).interfaces[2].variant
            /\ ctxt[comps[k].name].interface_deps
                 = << <<dep.interface, dep.srv, FirstVariant(Named(dep.srv), dep.interface)>> >>

\* C2: a record {I, S} whose server S exists and declares no export of I
\* resolves to one triple (I, S, "stubs") per record when the interface part
\* of S's image is I, and to no triple at all otherwise.
C2_ImplicitExportResolved ==
    Resolved =>
        \A k \in 1..Len(comps) : \A d \in 1..Len(comps[k].deps) :
            LET C   == comps[k]
                dep == C.deps[d]
            IN  (dep.srv \in Names(comps) /\ ~Exports(Named(dep.srv), dep.interface)) =>
                    IF PrimaryOf(Named(dep.srv).img) = dep.interface
                    THEN /\ Count(ctxt[C.name].interface_deps,
                                  <<dep.interface, dep.srv, "stubs">>) = Count(C.deps, dep)
                         /\ \A i \in TriplesFor(C, dep.interface, dep.srv) :
                                ctxt[C.name].interface_deps[i][3] = "stubs"
                    ELSE TriplesFor(C, dep.interface, dep.srv) = {}

\* One record resolved through the server's own interface, next to one that
\* found neither an export nor the server's own interface.
C2_Witness ==
    /\ Resolved
    /\ \E k \in 1..Len(comps) :
        /\ Len(comps[k].deps) = 2
        /\ \A d \in 1..2 :
            /\ comps[k].deps[d].srv \in Names(comps)
            /\ ~Exports(Named(comps[k].deps[d].srv), comps[k].deps[d].interface)
        /\ PrimaryOf(Named(comps[k].deps[1].srv).img) = comps[k].deps[1].interface
        /\ PrimaryOf(Named(comps[k].deps[2].srv).img) # comps[k].deps[2].interface
        /\ ctxt[comps[k].name].interface_deps
             = << <<comps[k].deps[1].interface, comps[k].deps[1].srv, "stubs">> >>

\* C3: the exports of a component are its declared exports in order, a missing
\* variant replaced by "stubs", followed by (own interface, "stubs") exactly
\* when no declared export names the own interface and it is neither "tests"
\* nor "no_interface"; so the own interface of every other component is among
\* its exports.
C3_PrimaryExportSynthesized ==
    Resolved =>
        \A k \in 1..Len(comps) :
            LET C        == comps[k]
                prim     == PrimaryOf(C.img)
                declared == [j \in 1..Len(C.interfaces) |->
                                <<C.interfaces[j].interface,
                                  IF Len(C.interfaces[j].variant) = 0 THEN "stubs"
                                  ELSE C.interfaces[j].variant[1]>>]
                exports  == ctxt[C.name].interface_exports
            IN  /\ IF ~Exports(C, prim) /\ ~Sentinel(prim)
                   THEN exports = declared \o << <<prim, "stubs">> >>
                   ELSE exports = declared
                /\ ~Sentinel(prim) => \E j \in 1..Len(exports) : exports[j][1] = prim

\* A component that declares another interface only got its own appended, and
\* a component of a reserved interface got nothing appended.
C3_Witness ==
    /\ Resolved
    /\ \E k \in 1..Len(comps) :
        /\ ~Exports(comps[k], PrimaryOf(comps[k].img))
        /\ ~Sentinel(PrimaryOf(comps[k].img))
        /\ Len(comps[k].interfaces) = 1
        /\ Len(ctxt[comps[k].name].interface_exports) = 2
    /\ \E k \in 1..Len(comps) :
        /\ Sentinel(PrimaryOf(comps[k].img))
        /\ Len(ctxt[comps[k].name].interface_exports) = Len(comps[k].interfaces)

\* The part of a failure message that names component C and both of its lists.
Complaint(C) ==
    "Component " \o C.name \o " (implementation: "
    \o SubSeq(C.img, Len(PrimaryOf(C.img)) + 2, Len(C.img))
    \o ") has dependencies that are not satisfied by stated dependencies:\n\tDependencies "
    \o DebugVec([d \in 1..Len(C.deps) |-> <<C.deps[d].interface, C.deps[d].srv>>])
    \o "\n\tProvided " \o DebugVec(ctxt[C.name].interface_deps)

\* t occurs in s
Contains(s, t) ==
    \E i \in 1..(Len(s) + 1) : i + Len(t) - 1 <= Len(s) /\ SubSeq(s, i, i + Len(t) - 1) = t

EndsWith(s, t) == Len(t) <= Len(s) /\ SubSeq(s, Len(s) - Len(t) + 1, Len(s)) = t

\* The names of the components with an unsatisfied record, in ascending order.
FailingNames == SortedKeys({n \in Names(comps) : ~AllSatisfied(Named(n))})

\* C4: at most one triple per declared record, so a component validates iff
\* every one of its records found a server and an interface (the counts are
\* equal); a record whose server does not exist adds no triple and makes the
\* component fail with a message naming the declared and the resolved lists.
\* The whole system validates iff every component does, and the error is the
\* concatenation of the failing components' messages.
C4_ValidationFailsClosed ==
    verdict # None =>
        /\ \A k \in 1..Len(comps) :
            LET C == comps[k]
            IN  /\ Len(ctxt[C.name].interface_deps) <= Len(C.deps)
                /\ (Len(ctxt[C.name].interface_deps) = Len(C.deps)) <=> AllSatisfied(C)
                /\ ComponentValidateDeps(ctxt[C.name]).ok <=> AllSatisfied(C)
                /\ ~AllSatisfied(C) => ComponentValidateDeps(ctxt[C.name]).err = Complaint(C)
                /\ \A d \in 1..Len(C.deps) :
                    C.deps[d].srv \notin Names(comps) =>
                        /\ TriplesFor(C, C.deps[d].interface, C.deps[d].srv) = {}
                        /\ ~AllSatisfied(C)
                /\ (Len(C.deps) = 1 /\ C.deps[1].srv \notin Names(comps)) =>
                        EndsWith(Complaint(C),
                                 "Dependencies [(\"" \o C.deps[1].interface \o "\", \""
                                 \o C.deps[1].srv \o "\")]\n\tProvided []")
        /\ verdict[1].ok <=> FailingNames = <<>>
        /\ verdict[1].err = Concat([k \in 1..Len(FailingNames) |->
                                        Complaint(Named(FailingNames[k]))])

\* Two components fail, one of them on a server that does not exist, and the
\* error names both.
C4_Witness ==
    /\ verdict # None
    /\ Len(comps) = 2
    /\ \A k \in 1..2 : ~AllSatisfied(comps[k])
    /\ \E k \in 1..2 : Len(comps[k].deps) = 1 /\ comps[k].deps[1].srv \notin Names(comps)
    /\ \E k \in 1..2 : Len(ctxt[comps[k].name].interface_deps) = 1
    /\ ~verdict[1].ok
    /\ \A k \in 1..2 : Contains(verdict[1].err, Complaint(comps[k]))

-----------------------------------------------------------------------------
(* Vocabulary of the build and packaging properties *)

\* The canonical object name of the component named n, from the input.
NameOf(n) == Named(n).img \o "." \o n

Builds == SelectSeq(execs, LAMBDA e : e.by = "build_components")
Seals == SelectSeq(execs, LAMBDA e : e.by = "gen_booter")

WritesOf(kind) == {k \in 1..Len(writes) : writes[k].kind = kind}
FileEntries == {k \in 1..Len(ar) : ar[k].kind = "file"}

Packaging == pc \in {"gen_booter", "describe", "seal", "sealing", "done", "panicked"}
Bundled == pc \in {"describe", "seal", "sealing", "done"}

C6_BundleContents ==
    Bundled =>
        /\ Len(ar) >= 1
        /\ ar[1].kind = "dir" /\ ar[1].name = TarballKey \o "/"
        /\ \A k \in 2..Len(ar) : ar[k].kind = "file"
        /\ Cardinality(FileEntries) = Cardinality(Names(comps) \ {booter})
        /\ \A n \in Names(comps) \ {booter} :
                Cardinality({k \in FileEntries :
                    /\ ar[k].name = TarballKey \o "/" \o NameOf(n)
                    /\ ar[k].src = builddir \o NameOf(n)}) = 1
        /\ \A k \in FileEntries : ar[k].name # TarballKey \o "/" \o NameOf(booter)

\* Three components, one of them the booter: two file entries.
C6_Witness ==
    /\ pc = "describe"
    /\ Len(comps) = 3
    /\ Cardinality(FileEntries) = 2
    /\ Len(ar) = 3

C8_BuildSequence ==
    /\ \A i, j \in 1..Len(Builds) : i < j => StrLess(Builds[i].n, Builds[j].n)
    /\ \A i \in 1..Len(Builds) :
            /\ Builds[i].n \in Names(comps)
            /\ Builds[i].cmd.COMP_VARNAME = Builds[i].n
            /\ \A n \in Names(comps) :
                    StrLess(n, Builds[i].n) => \E j \in 1..(i - 1) : Builds[j].n = n
    /\ \A i \in 1..Len(execs) : i < Len(execs) => execs[i].state # "running"
    /\ Packaging => Len(Builds) = Cardinality(Names(comps))

\* The list is not in name order, the first build failed and the other two
\* were still invoked.
C8_Witness ==
    /\ pc = "gen_booter"
    /\ Len(comps) = 3
    /\ StrLess(comps[2].name, comps[1].name)
    /\ Len(Builds) = 3
    /\ Builds[1].state = "err"
    /\ Builds[3].state = "ok"

\* C9: reset_dir is called once, before anything is written or invoked; a
\* failed reset makes the current working directory the build directory and
\* the run goes on; every path made from the build directory uses the
\* directory the reset left.
C9_BuildDirLifecycle ==
    /\ Len(resets) <= 1
    /\ (execs # <<>> \/ writes # <<>> \/ ar # <<>>) => Len(resets) = 1
    /\ resets # <<>> => pc \in {"loop", "exec"} \/ Packaging
    /\ resets = <<FALSE>> => builddir = cwd \o "/"
    /\ \A k \in 1..Len(execs) :
            /\ execs[k].cmd.COMP_OUTPUT = builddir \o NameOf(execs[k].n)
            /\ execs[k].cmd.COMP_INITARGS_FILE
                    = <<builddir \o NameOf(execs[k].n) \o "_initargs.c">>
            /\ execs[k].by = "gen_booter" =>
                    execs[k].cmd.COMP_TAR_FILE
                        = <<builddir \o NameOf(execs[k].n) \o "_initfs.tar">>
    /\ \A k \in 1..Len(writes) :
            writes[k].path = builddir \o NameOf(writes[k].owner) \o
                (CASE writes[k].kind = "output" -> ""
                   [] writes[k].kind = "initfs" -> "_initfs.tar"
                   [] OTHER -> "_initargs.c")
    /\ \A k \in FileEntries :
            \E n \in Names(comps) : ar[k].src = builddir \o NameOf(n)
    /\ Len(resets) = 1 =>
            \A n \in Names(comps) :
                comp_obj_path(n) = [ok |-> TRUE, val |-> builddir \o NameOf(n)]

\* C10: no file written for one component lies at the build-output path of
\* another component.
C10_OutputPathIsolation ==
    \A k \in 1..Len(writes) : \A n \in Names(comps) :
        n # writes[k].owner => writes[k].path # builddir \o NameOf(n)

=============================================================================
